---- MODULE Spec2Model ----
(***************************************************************************)
(* The media import pipeline of apps/backend: ImporterService              *)
(* (importer/mod.rs) and the job handlers that drive it (background.rs).   *)
(*                                                                         *)
(* Option<T> is modelled as a sequence of length at most one: None is <<>> *)
(* and Some(x) is <<x>>.  A Result is modelled by drawing its outcome.     *)
(* Time is counted in hours.                                               *)
(***************************************************************************)
EXTENDS Integers, Sequences, FiniteSets, TLC

\* ------------------------------------------------------------------ bounds
MaxWorkers == 2
MaxSweeps == 2
MaxDeploys == 2
MaxMedia == 2
MaxActivity == 2
MaxTopCols == 1
MaxReports == 3

\* Duration::hours(24)
StaleHours == 24

\* The instants the clock is observed at: on both sides of the 24 hour limit
\* for a report started at hour 0 and for one started at hour 1.
Instants == {0, 1, 24, 25, 26}

Workers == 1..MaxWorkers
Sweeps == 1..MaxSweeps

None == <<>>
Some(x) == <<x>>

\* ------------------------------------------------------------------ data
MediaImportSource == {"MediaTracker", "Trakt"}

UserIds == {7}

ErrorMessages == {"error"}

\* str::trim_end_matches('/') on a string given as a sequence of characters.
RECURSIVE trim_end_matches(_)
trim_end_matches(url) ==
    IF url # <<>> /\ url[Len(url)] = "/"
    THEN trim_end_matches(SubSeq(url, 1, Len(url) - 1))
    ELSE url

ApiUrls == {<<"h">>, <<"h", "/">>}

\* DeployImportJobInput: the source tag and one optional payload per source.
\* Nothing makes the payload that matches the tag present.
DeployImportJobInputs ==
    { [source |-> "MediaTracker", media_tracker |-> p, trakt |-> None] :
        p \in {None} \cup { Some([api_url |-> u]) : u \in ApiUrls } }
    \cup
    { [source |-> "Trakt", media_tracker |-> None, trakt |-> p] :
        p \in {None, Some([username |-> "alice"])} }

\* MetadataLot of the item at position i of the adapter's list.
LotOf(i) == IF i % 2 = 1 THEN "Book" ELSE "Movie"

\* ImportOrExportItemReview: rating and review are both optional, and so is
\* the text of a review that is present.
ReviewEntries ==
    { [rating |-> None, review |-> None],
      [rating |-> None, review |-> Some([text |-> None])],
      [rating |-> Some(5), review |-> Some([text |-> Some("text")])] }

SeqsUpTo(S, n) == UNION { [1..m -> S] : m \in 0..n }

\* The seen entries of an item; their fields are passed through unread.
SeenHistories(n) == { [k \in 1..m |-> [ended_on |-> None]] : m \in 0..n }

CollectionNames(n) == { [k \in 1..m |-> k] : m \in 0..n }

\* ImportOrExportItemIdentifier of the item at position i, the payload left out.
IdentifierOf(i) == IF i % 2 = 1 THEN "NeedsDetails" ELSE "AlreadyFilled"

\* ImportOrExportItem without its source_id, lot and identifier.
ItemBodies(ns, nr, nc) ==
    [ seen_history : SeenHistories(ns),
      reviews : SeqsUpTo(ReviewEntries, nr),
      collections : CollectionNames(nc) ]

MkItem(i, b) ==
    [ source_id |-> i, lot |-> LotOf(i), identifier |-> IdentifierOf(i),
      seen_history |-> b.seen_history, reviews |-> b.reviews,
      collections |-> b.collections ]

\* The key the media are sorted by.
ActivityKey(m) == Len(m.seen_history) + Len(m.reviews) + Len(m.collections)

\* The items with at most a seen entries, reviews and collections in all.
ItemBodiesUpTo(a) == { b \in ItemBodies(a, a, a) : ActivityKey(b) <= a }

\* The lists of at most n items with at most a entries in all.
RECURSIVE MediaBodies(_, _)
MediaBodies(n, a) ==
    IF n = 0 THEN {<<>>}
    ELSE {<<>>} \cup
         UNION { { <<b>> \o rest : rest \in MediaBodies(n - 1, a - ActivityKey(b)) } :
                    b \in ItemBodiesUpTo(a) }

\* ImportResult as an adapter returns it: failed_items starts empty.
ImportResults(nm, na, nt) ==
    { [ collections |-> c,
        media |-> [i \in DOMAIN bs |-> MkItem(i, bs[i])],
        failed_items |-> <<>> ] :
      c \in CollectionNames(nt),
      bs \in MediaBodies(nm, na) }

EmptyImport == [collections |-> <<>>, media |-> <<>>, failed_items |-> <<>>]

ImportFailedItem_untraceable(item, step, msg) ==
    [ lot |-> item.lot, step |-> step, identifier |-> 0, error |-> Some(msg) ]

\* ImportFailedItem { lot: item.lot, step, identifier: item.source_id, error }
ImportFailedItem(item, step, msg) ==
    [ lot |-> item.lot, step |-> step, identifier |-> item.source_id,
      error |-> Some(msg) ]

\* ------------------------------------------------------------------ state
VARIABLES
    now,        \* Utc::now(), in hours
    reports,    \* the media_import_report table, row id = index
    storage,    \* SqliteStorage<ImportMedia>: the queue of import jobs
    deploys,    \* number of deploy_import_job calls made so far
    worker,     \* per worker: the import_from_source call it is running
    sweep,      \* per scheduled job: the invalidate_import_jobs call
    before      \* the table and the clock of the initial state, never written

vars == <<now, reports, storage, deploys, worker, sweep, before>>

IdleWorker ==
    [ pc |-> "idle", user_id |-> 0, input |-> None, db_import_job |-> None,
      import |-> EmptyImport, idx |-> 0, k |-> 0, metadata |-> None,
      calls |-> <<>>, error |-> None ]

IdleSweep == [pc |-> "idle", all_jobs |-> <<>>]

Init ==
    /\ now = 0
    /\ reports = <<>>
    /\ storage = <<>>
    /\ deploys = 0
    /\ worker = [w \in Workers |-> IdleWorker]
    /\ sweep = [s \in Sweeps |-> IdleSweep]
    /\ before = [reports |-> reports, now |-> now]

\* ------------------------------------------------------------------ clock
Tick ==
    /\ \E t \in Instants : t > now /\ now' = t
    /\ UNCHANGED <<reports, storage, deploys, worker, sweep, before>>

\* ------------------------------------------------------------------ deploy
\* deploy_import_job, the input as it is enqueued: the api_url of a
\* media_tracker payload loses its trailing slashes.
NormalisedInput(input) ==
    IF input.media_tracker # None
    THEN [input EXCEPT !.media_tracker =
            Some([api_url |-> trim_end_matches(input.media_tracker[1].api_url)])]
    ELSE input

deploy_import_job_creates_report(user_id, input) ==
    /\ deploys < MaxDeploys
    /\ deploys' = deploys + 1
    /\ storage' = Append(storage, [user_id |-> user_id,
                                   input |-> NormalisedInput(input)])
    /\ reports' = Append(reports,
            [ user_id |-> user_id, source |-> input.source, started_on |-> now,
              success |-> None, details |-> None, writes |-> 0 ])
    /\ UNCHANGED <<now, worker, sweep, before>>

\* ImporterService::deploy_import_job: normalise the input and enqueue one
\* ImportMedia job.  push(..).await.unwrap() panics when the push fails.
deploy_import_job(user_id, input) ==
    /\ deploys < MaxDeploys
    /\ deploys' = deploys + 1
    /\ \E pushed \in BOOLEAN :
        storage' = IF pushed
                   THEN Append(storage, [user_id |-> user_id,
                                         input |-> NormalisedInput(input)])
                   ELSE storage
    /\ UNCHANGED <<now, reports, worker, sweep, before>>

Deploy == \E u \in UserIds, i \in DeployImportJobInputs : deploy_import_job(u, i)

\* ------------------------------------------------------------------ sweep
\* One row of the table as find() returns it.
Model(id) == [id |-> id, started_on |-> reports[id].started_on]

RECURSIVE NullRows(_)
NullRows(n) ==
    IF n = 0 THEN <<>>
    ELSE IF reports[n].success = None
         THEN Append(NullRows(n - 1), Model(n))
         ELSE NullRows(n - 1)

\* invalidate_import_jobs, the query: all rows whose success is null.
invalidate_find(s) ==
    /\ sweep[s].pc = "idle"
    /\ sweep' = [sweep EXCEPT ![s] =
                    [pc |-> "loop", all_jobs |-> NullRows(Len(reports))]]
    /\ UNCHANGED <<now, reports, storage, deploys, worker, before>>

save_success_lost(id, v) == reports

\* ActiveModel::save of a row on which only success is set: UPDATE .. SET
\* success = v WHERE id = .., whatever the row holds by now.
save_success(id, v) ==
    [reports EXCEPT ![id].success = v, ![id].writes = @ + 1]

IsStale_inclusive(job) == now - job.started_on >= StaleHours

\* Utc::now() - job.started_on > Duration::hours(24)
IsStale(job) == now - job.started_on > StaleHours

\* invalidate_import_jobs, one turn of the loop over the rows read.
invalidate_job(s) ==
    /\ sweep[s].pc = "loop"
    /\ sweep[s].all_jobs # <<>>
    /\ LET job == Head(sweep[s].all_jobs)
       IN reports' = IF IsStale(job)
                     THEN save_success(job.id, Some(FALSE))
                     ELSE reports
    /\ sweep' = [sweep EXCEPT ![s].all_jobs = Tail(@)]
    /\ UNCHANGED <<now, storage, deploys, worker, before>>

\* invalidate_import_jobs returns Ok(()) once the loop is over.
invalidate_return(s) ==
    /\ sweep[s].pc = "loop"
    /\ sweep[s].all_jobs = <<>>
    /\ sweep' = [sweep EXCEPT ![s] = IdleSweep]
    /\ UNCHANGED <<now, reports, storage, deploys, worker, before>>

SweepStep == \E s \in Sweeps :
    \/ invalidate_find(s)
    \/ invalidate_job(s)
    \/ invalidate_return(s)

\* ------------------------------------------------------------------ import
ItemStart_history_first(imp, idx) ==
    IF idx <= Len(imp.media)
    THEN IF imp.media[idx].seen_history # <<>>
         THEN [pc |-> "seen", idx |-> idx, k |-> 1]
         ELSE [pc |-> "commit", idx |-> idx, k |-> 0]
    ELSE [pc |-> "recalculate", idx |-> 0, k |-> 0]

\* Where the loop over import.media stands: at the catalog entry of item idx,
\* or past the last item.
ItemStart(imp, idx) ==
    IF idx <= Len(imp.media)
    THEN [pc |-> "commit", idx |-> idx, k |-> 0]
    ELSE [pc |-> "recalculate", idx |-> 0, k |-> 0]

EnterCollections(imp, idx) ==
    IF imp.media[idx].collections # <<>>
    THEN [pc |-> "create_collection", idx |-> idx, k |-> 1]
    ELSE ItemStart(imp, idx + 1)

EnterReviews(imp, idx) ==
    IF imp.media[idx].reviews # <<>>
    THEN [pc |-> "review", idx |-> idx, k |-> 1]
    ELSE EnterCollections(imp, idx)

EnterSeen(imp, idx) ==
    IF imp.media[idx].seen_history # <<>>
    THEN [pc |-> "seen", idx |-> idx, k |-> 1]
    ELSE EnterReviews(imp, idx)

Goto(r, pos) ==
    [r EXCEPT !.pc = pos.pc, !.idx = pos.idx, !.k = pos.k,
              !.metadata = IF pos.pc \in {"commit", "recalculate"} THEN None ELSE @]

\* A call of a MiscellaneousService method and whether it returned Ok, as a
\* mock of the service would record it: op for item (0: for no item), on the
\* item's k-th entry or collection (0: on none).
Called(r, op, item, k, ok) ==
    [r EXCEPT !.calls = Append(@, [op |-> op, item |-> item, k |-> k, ok |-> ok])]

\* The end of import_from_source before its last line: Err(e) returned by a
\* `?`, on which import_media panics in unwrap(), or a panic of its own.
\* error names what failed.
Stop(r, pc, what) ==
    [r EXCEPT !.pc = pc, !.idx = 0, !.k = 0, !.metadata = None,
              !.error = Some(what)]

\* background::import_media: a worker takes the next job off the queue.
import_media(w) ==
    /\ worker[w].pc = "idle"
    /\ storage # <<>>
    /\ worker' = [worker EXCEPT ![w] =
                    [IdleWorker EXCEPT !.pc = "start",
                                       !.user_id = Head(storage).user_id,
                                       !.input = Some(Head(storage).input)]]
    /\ storage' = Tail(storage)
    /\ UNCHANGED <<now, reports, deploys, sweep, before>>

\* MiscellaneousService::start_import_job: a new row, running.
NewReport(user_id, source) ==
    [ user_id |-> user_id, source |-> source, started_on |-> now,
      success |-> None, details |-> None, writes |-> 0 ]

\* MiscellaneousService::finish_import_job: the details and success = true
\* are written onto the row of the job.
FinishedReports(id, details) ==
    [reports EXCEPT ![id].success = Some(TRUE), ![id].details = Some(details),
                    ![id].writes = @ + 1]

start_import_job_reuses_row(w) ==
    /\ worker[w].pc = "start"
    /\ reports # <<>>
    /\ worker' = [worker EXCEPT ![w] =
            [Called(@, "start_import_job", 0, 0, TRUE) EXCEPT
                !.pc = "adapter", !.db_import_job = Some(1)]]
    /\ UNCHANGED <<now, reports, storage, deploys, sweep, before>>

\* let db_import_job = self.media_service.start_import_job(..).await?
start_import_job(w) ==
    /\ worker[w].pc = "start"
    /\ \E ok \in BOOLEAN :
        LET r == Called(worker[w], "start_import_job", 0, 0, ok) IN
        IF ok
        THEN /\ reports' = Append(reports,
                    NewReport(r.user_id, r.input[1].source))
             /\ worker' = [worker EXCEPT ![w] =
                    [r EXCEPT !.pc = "adapter",
                              !.db_import_job = Some(Len(reports) + 1)]]
        ELSE /\ reports' = reports
             /\ worker' = [worker EXCEPT ![w] = Stop(r, "failed", "start_import_job")]
    /\ UNCHANGED <<now, storage, deploys, sweep, before>>

\* The payload the match on input.source unwraps.
Payload(input) ==
    IF input.source = "MediaTracker" THEN input.media_tracker ELSE input.trakt

adapter_failed_persists(w) ==
    /\ worker' = [worker EXCEPT ![w] = Stop(@, "failed", "adapter")]
    /\ reports' = [reports EXCEPT ![worker[w].db_import_job[1]].success = Some(FALSE),
                                  ![worker[w].db_import_job[1]].writes = @ + 1]

\* The adapter returned Err(e): `?` returns it, the report is not touched.
adapter_failed(w) ==
    /\ worker' = [worker EXCEPT ![w] = Stop(@, "failed", "adapter")]
    /\ reports' = reports

\* The dispatch on input.source: unwrap() of the payload, then the adapter.
adapter_import(w, results) ==
    /\ worker[w].pc = "adapter"
    /\ LET r == worker[w] IN
        \/ /\ Payload(r.input[1]) = None
           /\ worker' = [worker EXCEPT ![w] = Stop(r, "panicked", "unwrap")]
           /\ reports' = reports
        \/ /\ Payload(r.input[1]) # None
           /\ adapter_failed(w)
        \/ /\ Payload(r.input[1]) # None
           /\ \E res \in results :
                worker' = [worker EXCEPT ![w] =
                    [r EXCEPT !.pc = "sort", !.import = res, !.input = None]]
           /\ reports' = reports
    /\ UNCHANGED <<now, storage, deploys, sweep, before>>

Orderings(seq) ==
    { [i \in DOMAIN seq |-> seq[f[i]]] :
        f \in { g \in [DOMAIN seq -> DOMAIN seq] :
                    \A i, j \in DOMAIN seq : i # j => g[i] # g[j] } }

\* sorted_unstable_by_key(key): any order of the same items in which the key
\* never decreases; the order of equal keys is the sort's choice.
sorted_unstable_by_key(media) ==
    { p \in Orderings(media) :
        \A i \in 1..(Len(p) - 1) : ActivityKey(p[i]) <= ActivityKey(p[i + 1]) }

\* Iterator::rev
rev(seq) == [i \in DOMAIN seq |-> seq[Len(seq) + 1 - i]]

SortedMedia_ascending(media) == sorted_unstable_by_key(media)

\* import.media after .sorted_unstable_by_key(..).rev().collect_vec()
SortedMedia(media) == { rev(p) : p \in sorted_unstable_by_key(media) }

sort_media(w) ==
    /\ worker[w].pc = "sort"
    /\ \E p \in SortedMedia(worker[w].import.media) :
        LET imp == [worker[w].import EXCEPT !.media = p]
            pos == IF imp.collections # <<>>
                   THEN [pc |-> "collections", idx |-> 0, k |-> 1]
                   ELSE ItemStart(imp, 1)
        IN worker' = [worker EXCEPT ![w] = Goto([@ EXCEPT !.import = imp], pos)]
    /\ UNCHANGED <<now, reports, storage, deploys, sweep, before>>

AfterTopCollection_swallows(r, ok) ==
    IF r.k < Len(r.import.collections)
    THEN [r EXCEPT !.k = @ + 1]
    ELSE Goto(r, ItemStart(r.import, 1))

\* `?` on the result of a top-level create_or_update_collection: an error
\* ends the execution, Ok goes on to the next collection or to the items.
AfterTopCollection(r, ok) ==
    IF ~ok THEN Stop(r, "failed", "collections")
    ELSE IF r.k < Len(r.import.collections)
         THEN [r EXCEPT !.k = @ + 1]
         ELSE Goto(r, ItemStart(r.import, 1))

\* The loop over import.collections: create_or_update_collection(..).await?
top_collection(w) ==
    /\ worker[w].pc = "collections"
    /\ \E ok \in BOOLEAN :
        LET r == Called(worker[w], "create_or_update_collection", 0, worker[w].k, ok)
        IN worker' = [worker EXCEPT ![w] = AfterTopCollection(r, ok)]
    /\ UNCHANGED <<now, reports, storage, deploys, sweep, before>>

\* The item the loop is at.
Item(r) == r.import.media[r.idx]

Failed(r, step, msg) ==
    [r EXCEPT !.import.failed_items = Append(@, ImportFailedItem(Item(r), step, msg))]

AfterCommitError_break(imp, idx) == ItemStart(imp, Len(imp.media) + 1)

\* `continue` after a failed commit: on to the next item.
AfterCommitError(imp, idx) == ItemStart(imp, idx + 1)

\* commit_media for an identifier that needs details, commit_media_internal
\* for one already filled; an error is recorded and the item is left.
commit(w) ==
    /\ worker[w].pc = "commit"
    /\ LET op == IF Item(worker[w]).identifier = "NeedsDetails"
                 THEN "commit_media" ELSE "commit_media_internal"
           item == Item(worker[w]).source_id
       IN \/ LET r == Called(worker[w], op, item, 0, TRUE) IN
             worker' = [worker EXCEPT ![w] =
                Goto([r EXCEPT !.metadata = Some([id |-> item])],
                     EnterSeen(r.import, r.idx))]
          \/ \E e \in ErrorMessages :
                LET r == Called(worker[w], op, item, 0, FALSE) IN
                worker' = [worker EXCEPT ![w] =
                    Goto(Failed(r, "MediaDetailsFromProvider", e),
                         AfterCommitError(r.import, r.idx))]
    /\ UNCHANGED <<now, reports, storage, deploys, sweep, before>>

\* The loop over item.seen_history: one progress_update per entry.
progress_update(w) ==
    /\ worker[w].pc = "seen"
    /\ LET r0 == worker[w]
           item == Item(r0).source_id
           pos == IF r0.k < Len(Item(r0).seen_history)
                  THEN [pc |-> "seen", idx |-> r0.idx, k |-> r0.k + 1]
                  ELSE EnterReviews(r0.import, r0.idx)
       IN \/ worker' = [worker EXCEPT ![w] =
                Goto(Called(r0, "progress_update", item, r0.k, TRUE), pos)]
          \/ \E e \in ErrorMessages :
                worker' = [worker EXCEPT ![w] =
                    Goto(Failed(Called(r0, "progress_update", item, r0.k, FALSE),
                                "SeenHistoryConversion", e), pos)]
    /\ UNCHANGED <<now, reports, storage, deploys, sweep, before>>

SkipsReview_missing(review) == FALSE

\* review.review.is_none() && review.rating.is_none()
SkipsReview(review) == review.review = None /\ review.rating = None

\* The loop over item.reviews: an entry without content is skipped, any
\* other is posted.
post_review(w) ==
    /\ worker[w].pc = "review"
    /\ LET r0 == worker[w]
           item == Item(r0).source_id
           review == Item(r0).reviews[r0.k]
           pos == IF r0.k < Len(Item(r0).reviews)
                  THEN [pc |-> "review", idx |-> r0.idx, k |-> r0.k + 1]
                  ELSE EnterCollections(r0.import, r0.idx)
       IN \/ /\ SkipsReview(review)
             /\ worker' = [worker EXCEPT ![w] = Goto(r0, pos)]
          \/ /\ ~SkipsReview(review)
             /\ worker' = [worker EXCEPT ![w] =
                    Goto(Called(r0, "post_review", item, r0.k, TRUE), pos)]
          \/ /\ ~SkipsReview(review)
             /\ \E e \in ErrorMessages :
                    worker' = [worker EXCEPT ![w] =
                        Goto(Failed(Called(r0, "post_review", item, r0.k, FALSE),
                                    "ReviewConversion", e), pos)]
    /\ UNCHANGED <<now, reports, storage, deploys, sweep, before>>

\* The loop over item.collections, first call:
\* create_or_update_collection(..).await?
create_collection(w) ==
    /\ worker[w].pc = "create_collection"
    /\ \E ok \in BOOLEAN :
        LET r == Called(worker[w], "create_or_update_collection",
                        Item(worker[w]).source_id, worker[w].k, ok)
        IN worker' = [worker EXCEPT ![w] =
                IF ok THEN [r EXCEPT !.pc = "add_to_collection"]
                ELSE Stop(r, "failed", "create_collection")]
    /\ UNCHANGED <<now, reports, storage, deploys, sweep, before>>

AfterAdd_propagates(r, pos, ok) ==
    IF ok THEN Goto(r, pos) ELSE Stop(r, "failed", "add_to_collection")

\* .ok() on the result of add_media_to_collection: the loop goes on.
AfterAdd(r, pos, ok) == Goto(r, pos)

\* The loop over item.collections, second call:
\* add_media_to_collection(..).await.ok()
add_media_to_collection(w) ==
    /\ worker[w].pc = "add_to_collection"
    /\ \E ok \in BOOLEAN :
        LET r == Called(worker[w], "add_media_to_collection",
                        Item(worker[w]).source_id, worker[w].k, ok)
            pos == IF r.k < Len(Item(r).collections)
                   THEN [pc |-> "create_collection", idx |-> r.idx, k |-> r.k + 1]
                   ELSE ItemStart(r.import, r.idx + 1)
        IN worker' = [worker EXCEPT ![w] = AfterAdd(r, pos, ok)]
    /\ UNCHANGED <<now, reports, storage, deploys, sweep, before>>

AfterRecalculate_propagates(r, ok) ==
    IF ok THEN [r EXCEPT !.pc = "finish"] ELSE Stop(r, "failed", "recalculate")

\* .ok() on the result of deploy_recalculate_summary_job: on to the summary.
AfterRecalculate(r, ok) == [r EXCEPT !.pc = "finish"]

\* deploy_recalculate_summary_job(user_id).await.ok()
deploy_recalculate_summary_job(w) ==
    /\ worker[w].pc = "recalculate"
    /\ \E ok \in BOOLEAN :
        worker' = [worker EXCEPT ![w] =
            AfterRecalculate(Called(@, "deploy_recalculate_summary_job", 0, 0, ok), ok)]
    /\ UNCHANGED <<now, reports, storage, deploys, sweep, before>>

\* a - b on usize.  The value is carry * 2^64 + n: with a < b the
\* subtraction wraps around to 2^64 + a - b where overflow is unchecked.
wrapping_sub(a, b) == [carry |-> IF a < b THEN 1 ELSE 0, n |-> a - b]

ImportResultResponse_failed_only(source, imp) ==
    [ source |-> source,
      total |-> wrapping_sub(Len(imp.failed_items), 0),
      failed_items |-> imp.failed_items ]

\* ImportResultResponse { source, import: ImportDetails { total }, failed_items }
ImportResultResponse(source, imp) ==
    [ source |-> source,
      total |-> wrapping_sub(Len(imp.media), Len(imp.failed_items)),
      failed_items |-> imp.failed_items ]

\* The summary and the final write of the report.  The subtraction panics on
\* overflow in a build that checks overflow and wraps in one that does not.
finish_import_job(w) ==
    /\ worker[w].pc = "finish"
    /\ LET r == worker[w]
           id == r.db_import_job[1]
           details == ImportResultResponse(reports[id].source, r.import)
           outcomes == (IF details.total.carry = 1 THEN {"overflow"} ELSE {})
                            \cup {"wrote", "error"}
       IN \E o \in outcomes :
            /\ reports' = IF o = "wrote" THEN FinishedReports(id, details)
                          ELSE reports
            /\ worker' = [worker EXCEPT ![w] =
                    CASE o = "overflow" -> Stop(r, "panicked", "overflow")
                      [] o = "wrote" ->
                            [Called(r, "finish_import_job", 0, 0, TRUE) EXCEPT
                                !.pc = "done"]
                      [] OTHER ->
                            Stop(Called(r, "finish_import_job", 0, 0, FALSE),
                                 "failed", "finish_import_job")]
    /\ UNCHANGED <<now, storage, deploys, sweep, before>>

ImportStep(w, results) ==
    \/ import_media(w)
    \/ start_import_job(w)
    \/ adapter_import(w, results)
    \/ sort_media(w)
    \/ top_collection(w)
    \/ commit(w)
    \/ progress_update(w)
    \/ post_review(w)
    \/ create_collection(w)
    \/ add_media_to_collection(w)
    \/ deploy_recalculate_summary_job(w)
    \/ finish_import_job(w)

\* ------------------------------------------------------------------ specs
\* The concurrent system: deploys, workers, scheduled sweeps and the clock.
\* Between start_import_job and finish_import_job an execution touches
\* nothing another process reads, so here the adapters return an import
\* without media (or fail); SpecExec below covers the reconciliation.
Next ==
    \/ Tick
    \/ Deploy
    \/ SweepStep
    \/ \E w \in Workers :
        \/ import_media(w)
        \/ start_import_job(w)
        \/ adapter_import(w, {EmptyImport})
        \/ sort_media(w)
        \/ deploy_recalculate_summary_job(w)
        \/ finish_import_job(w)

Spec == Init /\ [][Next]_vars

\* One execution of import_from_source over every adapter result within the
\* bounds, from a queue that holds the one job.  The source tag only selects
\* the adapter, so one source stands for all, its payload present or absent.
ExecInputs == { i \in DeployImportJobInputs : i.source = "Trakt" }

AllResults == ImportResults(MaxMedia, MaxActivity, MaxTopCols)

InitExec ==
    /\ now = 0
    /\ reports = <<>>
    /\ \E u \in UserIds, i \in ExecInputs :
        storage = <<[user_id |-> u, input |-> NormalisedInput(i)]>>
    /\ deploys = 1
    /\ worker = [w \in Workers |-> IdleWorker]
    /\ sweep = [s \in Sweeps |-> IdleSweep]
    /\ before = [reports |-> reports, now |-> now]

NextExec == ImportStep(1, AllResults)

SpecExec == InitExec /\ [][NextExec]_vars

\* The sweep over a table that earlier executions and sweeps left behind:
\* rows in the order they were started, a finished one with its details.
StoredReport(started_on, success) ==
    [ user_id |-> 7, source |-> "Trakt", started_on |-> started_on,
      success |-> success,
      details |-> IF success = Some(TRUE)
                  THEN Some(ImportResultResponse("Trakt", EmptyImport))
                  ELSE None,
      writes |-> IF success = None THEN 0 ELSE 1 ]

StoredTables(t) ==
    { tab \in SeqsUpTo({ StoredReport(st, su) :
                            st \in { i \in Instants : i <= t },
                            su \in {None, Some(TRUE), Some(FALSE)} }, MaxReports) :
        \A i \in 1..(Len(tab) - 1) : tab[i].started_on <= tab[i + 1].started_on }

InitSweep ==
    /\ now \in Instants
    /\ reports \in StoredTables(now)
    /\ storage = <<>>
    /\ deploys = 0
    /\ worker = [w \in Workers |-> IdleWorker]
    /\ sweep = [s \in Sweeps |-> IdleSweep]
    /\ before = [reports |-> reports, now |-> now]

NextSweep ==
    \/ Tick
    \/ invalidate_find(1)
    \/ invalidate_job(1)
    \/ invalidate_return(1)

SpecSweep == InitSweep /\ [][NextSweep]_vars

\* An execution that may stop for good at any step, one scheduled sweep that
\* keeps being run (general_media_cleanup_jobs is a periodic job) and a clock
\* that keeps advancing up to the last instant.
Sweep1 == invalidate_find(1) \/ invalidate_job(1) \/ invalidate_return(1)

NextLive ==
    \/ Tick
    \/ Deploy
    \/ Sweep1
    \/ import_media(1)
    \/ start_import_job(1)
    \/ adapter_import(1, {EmptyImport})
    \/ sort_media(1)
    \/ deploy_recalculate_summary_job(1)
    \/ finish_import_job(1)

SpecLive == Init /\ [][NextLive]_vars /\ WF_vars(Tick) /\ WF_vars(Sweep1)

\* One execution next to the scheduled sweep and the clock, on a table that
\* holds the row an earlier execution left null.  Every way in which
\* import_from_source ends is reached with one media item, so the adapter
\* results are those with at most one.
AbortResults == { res \in AllResults : Len(res.media) <= 1 }

InitAbort ==
    /\ now = 0
    /\ reports = <<StoredReport(0, None)>>
    /\ \E u \in UserIds, i \in ExecInputs :
        storage = <<[user_id |-> u, input |-> NormalisedInput(i)]>>
    /\ deploys = 1
    /\ worker = [w \in Workers |-> IdleWorker]
    /\ sweep = [s \in Sweeps |-> IdleSweep]
    /\ before = [reports |-> reports, now |-> now]

NextAbort ==
    \/ Tick
    \/ Sweep1
    \/ ImportStep(1, AbortResults)

SpecAbort == InitAbort /\ [][NextAbort]_vars

\* ------------------------------------------------------------------ claims
Calls(w) == { worker[w].calls[i] : i \in DOMAIN worker[w].calls }

Media(w) == { worker[w].import.media[i] : i \in DOMAIN worker[w].import.media }

CommitOps == {"commit_media", "commit_media_internal"}

ItemOps == {"progress_update", "post_review", "create_or_update_collection",
            "add_media_to_collection"}

Terminal(w) == worker[w].pc \in {"done", "failed", "panicked"}

HasCall(w, op, item, k) ==
    \E c \in Calls(w) : c.op = op /\ c.item = item /\ c.k = k

\* Every call the loop makes for item m has been made.
Processed(w, m) ==
    \E c \in Calls(w) :
        /\ c.op \in CommitOps /\ c.item = m.source_id
        /\ c.ok =>
            /\ \A k \in DOMAIN m.seen_history :
                    HasCall(w, "progress_update", m.source_id, k)
            /\ \A k \in DOMAIN m.reviews :
                    \/ m.reviews[k].review = None /\ m.reviews[k].rating = None
                    \/ HasCall(w, "post_review", m.source_id, k)
            /\ \A k \in DOMAIN m.collections :
                    /\ HasCall(w, "create_or_update_collection", m.source_id, k)
                    /\ HasCall(w, "add_media_to_collection", m.source_id, k)

\* The items after the one with source_id x in the sorted order.
ItemsAfter(w, x) ==
    LET media == worker[w].import.media
    IN { media[j] : j \in { j \in DOMAIN media :
            \E i \in DOMAIN media : i < j /\ media[i].source_id = x } }

ReportOf(w) == reports[worker[w].db_import_job[1]]

\* C1: no report ever receives a second terminal write of success, whatever
\* the interleaving of executions and sweeps.
C1_AtMostOneTerminalWrite ==
    \A id \in DOMAIN reports : reports[id].writes <= 1

\* C2: a report whose success is true is never afterwards set to anything
\* else, also when a sweep read it as null before the execution finished.
C2_SuccessIsNeverInvalidated ==
    [][\A id \in DOMAIN reports :
            reports[id].success = Some(TRUE) => reports'[id].success = Some(TRUE)]_vars

SweepOver == sweep[1].pc = "loop" /\ sweep[1].all_jobs = <<>>

\* C3: when a sweep that runs alone is over, every report that was null and
\* more than 24 hours old when it began is false, every report that was null
\* and is at most 24 hours old now is still null, and every report that was
\* true or false is as it was.
C3_SweepInvalidatesExactlyTheStale ==
    SweepOver =>
        \A id \in DOMAIN before.reports :
            LET b == before.reports[id]
                a == reports[id]
            IN /\ b.success # None => a = b
               /\ (b.success = None /\ before.now - b.started_on > StaleHours)
                    => a.success = Some(FALSE)
               /\ (b.success = None /\ now - b.started_on <= StaleHours)
                    => a.success = None

C3_Witness ==
    /\ SweepOver
    /\ \E id \in DOMAIN before.reports :
        before.reports[id].success = None /\ reports[id].success = Some(FALSE)
    /\ \E id \in DOMAIN before.reports :
        before.reports[id].success = None /\ reports[id].success = None
    /\ \E id \in DOMAIN before.reports : before.reports[id].success = Some(TRUE)

C5_TotalPlusFailedIsMedia ==
    \A w \in Workers :
        worker[w].pc = "done" =>
            LET d == ReportOf(w).details[1]
            IN /\ d.total.carry = 0
               /\ d.total.n + Len(d.failed_items) = Len(worker[w].import.media)

FailedCommits(w) == { c \in Calls(w) : c.op \in CommitOps /\ ~c.ok }

NoItemCallsAfterFailedCommit(w) ==
    \A c \in FailedCommits(w) :
        \A d \in Calls(w) : ~(d.item = c.item /\ d.op \in ItemOps)

FailedWrites(w) ==
    { c \in Calls(w) : c.op \in {"progress_update", "post_review"} /\ ~c.ok }

StepOf(op) ==
    IF op = "progress_update" THEN "SeenHistoryConversion" ELSE "ReviewConversion"

\* The failed items recorded for item x at the given step.
FailedItemsOf(w, x, step) ==
    { i \in DOMAIN worker[w].import.failed_items :
        /\ worker[w].import.failed_items[i].identifier = x
        /\ worker[w].import.failed_items[i].step = step }

LastCall(r) == r.calls[Len(r.calls)]

EntryOf(w, c) ==
    LET m == CHOOSE m \in Media(w) : m.source_id = c.item
    IN m.reviews[c.k]

\* C9: the step that handles a review entry with rating = None and
\* review = None makes no call and appends no failed item.
C9_EmptyReviewIsANoOp ==
    [][\A w \in Workers :
        (/\ worker[w].pc = "review"
         /\ Item(worker[w]).reviews[worker[w].k].rating = None
         /\ Item(worker[w]).reviews[worker[w].k].review = None)
        => /\ worker'[w].calls = worker[w].calls
           /\ worker'[w].import = worker[w].import]_vars

C9_Witness ==
    /\ worker[1].pc = "done"
    /\ \E m \in Media(1) :
        /\ \E c \in Calls(1) : c.op \in CommitOps /\ c.item = m.source_id /\ c.ok
        /\ \E k \in DOMAIN m.reviews :
            m.reviews[k].rating = None /\ m.reviews[k].review = None

\* C10: no post_review call is made for a review entry that has neither a
\* rating nor a review text, the review object being absent or present
\* without text.
C10_NoContentIsNeverPosted ==
    \A w \in Workers :
        \A c \in Calls(w) :
            c.op = "post_review" =>
                \/ EntryOf(w, c).rating # None
                \/ /\ EntryOf(w, c).review # None
                   /\ EntryOf(w, c).review[1].text # None

\* The item of the sorted list with source_id x.
ItemWith(w, x) == CHOOSE m \in Media(w) : m.source_id = x

\* The positions in the call log of the catalog-resolve calls.
CommitCalls(r) == { i \in DOMAIN r.calls : r.calls[i].op \in CommitOps }

\* C11: the sort leaves a permutation of the adapter's media list, and
\* whenever the catalog entry of item A is resolved before that of item B,
\* the key len(seen_history) + len(reviews) + len(collections) of A is at
\* least that of B; so an item with key 0 comes after every item with a
\* positive key.
C11_DescendingActivityOrder ==
    [][\A w \in Workers :
        /\ (worker[w].pc = "sort" /\ worker'[w] # worker[w]) =>
            worker'[w].import.media \in Orderings(worker[w].import.media)
        /\ \A i, j \in CommitCalls(worker'[w]) :
            i < j =>
                LET media == worker'[w].import.media
                    a == CHOOSE m \in DOMAIN media :
                            media[m].source_id = worker'[w].calls[i].item
                    b == CHOOSE m \in DOMAIN media :
                            media[m].source_id = worker'[w].calls[j].item
                IN /\ ActivityKey(media[a]) >= ActivityKey(media[b])
                   /\ ActivityKey(media[a]) = 0 => ActivityKey(media[b]) = 0]_vars

C11_Witness ==
    /\ worker[1].pc = "done"
    /\ \E i, j \in CommitCalls(worker[1]) :
        /\ i < j
        /\ worker[1].calls[i].item > worker[1].calls[j].item
        /\ ActivityKey(ItemWith(1, worker[1].calls[i].item)) > 0
        /\ ActivityKey(ItemWith(1, worker[1].calls[j].item)) = 0

\* The positions in the call log of the create_or_update_collection calls
\* made for the top-level collections of the import.
TopCollectionCalls(r) ==
    { i \in DOMAIN r.calls :
        r.calls[i].op = "create_or_update_collection" /\ r.calls[i].item = 0 }

\* C12: every create_or_update_collection call for a top-level collection
\* comes before the first catalog-resolve call, which is made only after all
\* of them returned Ok; when one of them fails the execution ends on that
\* error and no call is made for any media item.
C12_TopCollectionsComeFirst ==
    \A w \in Workers :
        LET r == worker[w] IN
        /\ \A i \in TopCollectionCalls(r) : \A j \in CommitCalls(r) : i < j
        /\ CommitCalls(r) # {} =>
            \A k \in DOMAIN r.import.collections :
                \E i \in TopCollectionCalls(r) : r.calls[i].k = k /\ r.calls[i].ok
        /\ (\E i \in TopCollectionCalls(r) : ~r.calls[i].ok) =>
            /\ r.pc = "failed"
            /\ r.error = Some("collections")
            /\ \A c \in Calls(w) : c.item = 0

C12_Witness ==
    /\ worker[1].pc = "done"
    /\ Len(worker[1].import.collections) = MaxTopCols
    /\ Cardinality(TopCollectionCalls(worker[1])) = MaxTopCols
    /\ Cardinality(CommitCalls(worker[1])) = MaxMedia

\* C13: the step that calls deploy_recalculate_summary_job goes on to the
\* summary whether the call fails or not, with failed_items, the media and
\* the reports as they were and no error; and the final write that follows a
\* failed trigger sets success = true with the total and the failed_items of
\* the import.
C13_RecalculateFailureIsIgnored ==
    [][\A w \in Workers :
        /\ (worker[w].pc = "recalculate" /\ worker'[w] # worker[w]) =>
            /\ worker'[w].pc = "finish"
            /\ worker'[w].error = None
            /\ worker'[w].import = worker[w].import
            /\ worker'[w].db_import_job = worker[w].db_import_job
            /\ reports' = reports
        /\ (/\ worker[w].pc = "finish"
            /\ ~LastCall(worker[w]).ok
            /\ worker'[w].pc = "done") =>
            LET rep == reports'[worker[w].db_import_job[1]] IN
            /\ rep.success = Some(TRUE)
            /\ rep.details # None
            /\ rep.details[1].failed_items = worker[w].import.failed_items
            /\ rep.details[1].total =
                wrapping_sub(Len(worker[w].import.media),
                             Len(worker[w].import.failed_items))]_vars

C13_Witness ==
    /\ worker[1].pc = "done"
    /\ \E c \in Calls(1) : c.op = "deploy_recalculate_summary_job" /\ ~c.ok
    /\ ReportOf(1).success = Some(TRUE)
    /\ worker[1].import.media # <<>>
    /\ worker[1].import.failed_items # <<>>

\* The last instant the clock reaches.
LastInstant == CHOOSE t \in Instants : \A u \in Instants : u <= t

\* C14: with the clock advancing and the sweep being scheduled again and
\* again, every report that is null and whose 24 hours end before the last
\* instant of the clock eventually holds a terminal success value, wherever
\* its execution stops.
C14_RunningReportBecomesTerminal ==
    \A id \in 1..MaxDeploys :
        (/\ id \in DOMAIN reports
         /\ reports[id].success = None
         /\ reports[id].started_on + StaleHours < LastInstant)
            ~> (id \in DOMAIN reports /\ reports[id].success # None)

C14_Witness ==
    /\ worker[1].db_import_job # None
    /\ worker[1].pc \in {"adapter", "failed", "panicked"}
    /\ ReportOf(1).success = Some(FALSE)
    /\ ReportOf(1).writes = 1

\* C15: an execution whose input lacks the payload of its source ends by
\* returning a MissingPayload error, having called no adapter and made no
\* reconciliation call.
C15_MissingPayloadIsAnErrorValue ==
    \A w \in Workers :
        (/\ Terminal(w)
         /\ worker[w].db_import_job # None
         /\ worker[w].input # None
         /\ Payload(worker[w].input[1]) = None)
        => /\ worker[w].pc = "failed"
           /\ worker[w].error = Some("MissingPayload")
           /\ \A c \in Calls(w) : c.op = "start_import_job"

\* C16 as claimed: the step in which deploy_import_job enqueues a job also
\* creates a report with success = null for it.
C16_ReportCreatedAtDeploy ==
    [][Len(storage') > Len(storage) =>
        /\ Len(reports') = Len(reports) + 1
        /\ reports'[Len(reports')].success = None]_vars

\* C16: deploy_import_job enqueues exactly one job carrying the user id and
\* the normalised input (or panics when the push fails) and creates no
\* report; jobs are enqueued by nothing else; the report of a deploy, with
\* success = null, is created by the start_import_job call of the execution
\* a worker runs for the dequeued job.
C16_ReportCreatedAtExecution ==
    [][/\ deploys' # deploys =>
            /\ reports' = reports
            /\ worker' = worker
            /\ \/ storage' = storage
               \/ \E u \in UserIds, i \in DeployImportJobInputs :
                    storage' = Append(storage,
                        [user_id |-> u, input |-> NormalisedInput(i)])
       /\ Len(storage') > Len(storage) => deploys' = deploys + 1
       /\ Len(reports') # Len(reports) =>
            \E w \in Workers :
                /\ worker[w].pc = "start"
                /\ worker'[w].pc = "adapter"
                /\ worker'[w].db_import_job = Some(Len(reports'))
                /\ reports' = Append(reports,
                        [ user_id |-> worker[w].user_id,
                          source |-> worker[w].input[1].source,
                          started_on |-> now, success |-> None,
                          details |-> None, writes |-> 0 ])]_vars

C16_Witness ==
    /\ deploys = MaxDeploys
    /\ Len(storage) = 1
    /\ Len(reports) = 1
    /\ worker[1].pc = "adapter"
    /\ reports[1].success = None

\* C17: an execution whose adapter succeeded and all of whose calls returned
\* Ok ends with its report holding success = true, total = len(media) and
\* no failed item, whatever the media and the top-level collections.
C17_CleanRunReportsEverything ==
    \A w \in Workers :
        (/\ Terminal(w)
         /\ worker[w].db_import_job # None
         /\ worker[w].input = None
         /\ \A c \in Calls(w) : c.ok)
        => /\ worker[w].pc = "done"
           /\ ReportOf(w).success = Some(TRUE)
           /\ ReportOf(w).details # None
           /\ ReportOf(w).details[1].total =
                [carry |-> 0, n |-> Len(worker[w].import.media)]
           /\ ReportOf(w).details[1].failed_items = <<>>

C17_Witness ==
    /\ worker[1].pc = "done"
    /\ \A c \in Calls(1) : c.ok
    /\ Len(worker[1].import.media) = MaxMedia
    /\ Len(worker[1].import.collections) = MaxTopCols
    /\ \E c \in Calls(1) : c.op = "progress_update"
    /\ ReportOf(1).details[1].total.n = MaxMedia

\* The position in the sorted list of the item with source_id x.
PositionOf(r, x) ==
    CHOOSE i \in DOMAIN r.import.media : r.import.media[i].source_id = x

\* C18: the calls of one execution follow the sorted order of the items, each
\* call for an item coming before every call for a later item; the catalog
\* entry of an item is resolved once, and every progress_update, post_review,
\* create_or_update_collection and add_media_to_collection call for an item
\* comes after the (successful) resolve call for that item.
C18_ItemsAreProcessedOneAfterAnother ==
    \A w \in Workers :
        LET r == worker[w]
            c == r.calls
        IN /\ \A i, j \in DOMAIN c :
                (i < j /\ c[i].item # 0 /\ c[j].item # 0) =>
                    PositionOf(r, c[i].item) <= PositionOf(r, c[j].item)
           /\ \A i, j \in CommitCalls(r) : c[i].item = c[j].item => i = j
           /\ \A j \in DOMAIN c :
                (c[j].op \in ItemOps /\ c[j].item # 0) =>
                    \E i \in CommitCalls(r) :
                        i < j /\ c[i].item = c[j].item /\ c[i].ok

C18_Witness ==
    /\ worker[1].pc = "done"
    /\ Len(worker[1].import.media) = MaxMedia
    /\ \A m \in Media(1) :
            \E c \in Calls(1) : c.item = m.source_id /\ c.op \in ItemOps

\* C19: every step of an execution leaves the failed items recorded so far
\* unchanged and in place and appends at most one, and an appended failed
\* item carries the source_id and the lot of the item the loop is at.
C19_FailedItemsAreAppendOnlyAndTraceable ==
    [][\A w \in Workers :
        LET f == worker[w].import.failed_items
            g == worker'[w].import.failed_items
        IN /\ Len(f) <= Len(g)
           /\ Len(g) <= Len(f) + 1
           /\ SubSeq(g, 1, Len(f)) = f
           /\ \A i \in (Len(f) + 1)..Len(g) :
                /\ worker[w].pc \in {"commit", "seen", "review"}
                /\ g[i].identifier = Item(worker[w]).source_id
                /\ g[i].lot = Item(worker[w]).lot]_vars

C19_Witness ==
    /\ worker[1].pc = "done"
    /\ \E i, j \in DOMAIN worker[1].import.failed_items :
        /\ worker[1].import.failed_items[i].identifier
                # worker[1].import.failed_items[j].identifier
        /\ worker[1].import.failed_items[i].lot
                # worker[1].import.failed_items[j].lot
    /\ ReportOf(1).details[1].failed_items = worker[1].import.failed_items

\* The items for which no failure was recorded.
MediaWithoutFailure(w) ==
    { m \in Media(w) :
        \A i \in DOMAIN worker[w].import.failed_items :
            worker[w].import.failed_items[i].identifier # m.source_id }

\* C20: when the summary is computed there are at most as many failed items
\* as media, and the total that is written is the number of media for which
\* no failure was recorded.
C20_TotalCountsMediaWithoutFailure ==
    \A w \in Workers :
        /\ worker[w].pc \in {"finish", "done"} =>
            Len(worker[w].import.failed_items) <= Len(worker[w].import.media)
        /\ worker[w].pc = "done" =>
            ReportOf(w).details[1].total =
                [carry |-> 0, n |-> Cardinality(MediaWithoutFailure(w))]

\* The ways in which an execution ends before its final write succeeded.
AbortErrors ==
    {"start_import_job", "adapter", "unwrap", "collections",
     "create_collection", "overflow", "finish_import_job"}

\* C21: a row of the report table is only ever changed by the successful
\* finish_import_job call of the execution that created it, once, setting
\* success = true, or by a sweep setting success = false; an execution
\* creates its own row in start_import_job, and the step on which it ends
\* early (adapter error, missing payload, failed collection creation,
\* failed final write, or any other abort) leaves every report as it was.
C21_OnlyFinishAndSweepWriteReports ==
    [][/\ \A id \in DOMAIN reports :
            reports'[id] # reports[id] =>
                \/ /\ worker' = worker
                   /\ \E s \in Sweeps :
                        /\ sweep[s].pc = "loop"
                        /\ sweep[s].all_jobs # <<>>
                        /\ Head(sweep[s].all_jobs).id = id
                        /\ sweep'[s] # sweep[s]
                   /\ reports'[id] = [reports[id] EXCEPT
                            !.success = Some(FALSE), !.writes = @ + 1]
                \/ /\ sweep' = sweep
                   /\ \E w \in Workers :
                        /\ worker[w].pc = "finish"
                        /\ worker'[w].pc = "done"
                        /\ worker[w].db_import_job = Some(id)
                        /\ \A c \in Calls(w) : c.op # "finish_import_job"
                        /\ LastCall(worker'[w]).op = "finish_import_job"
                   /\ reports'[id].success = Some(TRUE)
       /\ \A w \in Workers :
            /\ worker'[w].db_import_job # worker[w].db_import_job =>
                /\ worker[w].pc = "start"
                /\ Len(reports') = Len(reports) + 1
                /\ worker'[w].db_import_job = Some(Len(reports'))
                /\ \A v \in Workers \ {w} :
                        worker[v].db_import_job # Some(Len(reports'))
            /\ (worker'[w].pc \in {"failed", "panicked"} /\ worker'[w] # worker[w]) =>
                /\ worker'[w].error \in { Some(e) : e \in AbortErrors }
                /\ reports' = reports]_vars

C21_Witness ==
    /\ worker[1].pc = "failed"
    /\ worker[1].error = Some("create_collection")
    /\ ReportOf(1).success = None
    /\ ReportOf(1).writes = 0
    /\ reports[1].success = Some(FALSE)
    /\ worker[1].db_import_job = Some(2)

====
